---------------------------- MODULE Spec2Model ----------------------------
(***************************************************************************)
(* anything2anki: the generation / reflection / improvement workflow of    *)
(* generate_anki_cards, the response parsers and the flashcard contract.   *)
(*                                                                         *)
(* Text is modelled at the level of lexical tokens.  A response that is    *)
(* meant to hold flashcards is a sequence of array tokens: the characters  *)
(* "[" and "]", a whitespace run " ", a word of prose "n", and whole JSON  *)
(* objects {"question": .., "answer": ..} (token "obj"); the separating    *)
(* commas of a JSON array are implied between adjacent values.  A response *)
(* that is meant to hold feedback is a sequence of object tokens: "{",     *)
(* "}", " ", "n" and the member list of a JSON object (token "members").   *)
(* Field values are strings, modelled as sequences of characters.          *)
(***************************************************************************)
EXTENDS Integers, Sequences, FiniteSets, TLC

(***************************************************************************)
(* Bounds of the model.                                                    *)
(***************************************************************************)
MaxReflections == 2
MaxTextLen == 4

(***************************************************************************)
(* Strings.                                                                *)
(***************************************************************************)
RECURSIVE lstrip(_)
lstrip(s) ==
    IF s = <<>> THEN <<>>
    ELSE IF Head(s) = " " THEN lstrip(Tail(s)) ELSE s

RECURSIVE rstrip(_)
rstrip(s) ==
    IF s = <<>> THEN <<>>
    ELSE IF s[Len(s)] = " " THEN rstrip(SubSeq(s, 1, Len(s) - 1)) ELSE s

\* str.strip()
strip(s) == rstrip(lstrip(s))

(***************************************************************************)
(* Flashcard contract (schemas.py).                                        *)
(***************************************************************************)
\* variant: the value is kept as it came, not stripped
ensure_untrimmed(value) == value

\* variant: only the leading whitespace is removed
ensure_lstripped(value) == lstrip(value)

\* Flashcard._ensure_trimmed, for one field: the stored value, or <<>> when
\* the validator raises "Value must be a non-empty string"
ensure_trimmed(value) == strip(value)

FieldValid(value) == ensure_trimmed(value) # <<>>

\* Flashcard(question=.., answer=..): validation succeeds or raises
FlashcardValid(obj) == FieldValid(obj.question) /\ FieldValid(obj.answer)

Flashcard(obj) ==
    [question |-> ensure_trimmed(obj.question),
     answer   |-> ensure_trimmed(obj.answer)]

\* variant: a list of no flashcards is accepted
FlashcardListValidAllowEmpty(objs) ==
    \A i \in 1..Len(objs) : FlashcardValid(objs[i])

\* FlashcardList.model_validate: every item a Flashcard, then _ensure_non_empty
FlashcardListValid(objs) ==
    /\ \A i \in 1..Len(objs) : FlashcardValid(objs[i])
    /\ Len(objs) > 0

FlashcardList(objs) == [i \in 1..Len(objs) |-> Flashcard(objs[i])]


(***************************************************************************)
(* Feedback contract (schemas.py).                                         *)
(***************************************************************************)
FeedbackKeys == {"strengths", "weaknesses", "recommendations", "overall_quality"}

\* the fields _validate_non_empty_items is applied to
ListFields == {"strengths", "weaknesses", "recommendations"}

\* the validated value when validation fails (never stored by the workflow)
NoFeedback ==
    [strengths |-> <<>>, weaknesses |-> <<>>, recommendations |-> <<>>,
     overall_quality |-> <<>>]

\* variant: every item is stripped and kept, blank or not
RECURSIVE validate_items_unfiltered(_)
validate_items_unfiltered(values) ==
    IF values = <<>> THEN <<>>
    ELSE <<strip(Head(values))>> \o validate_items_unfiltered(Tail(values))

\* FlashcardFeedback._validate_non_empty_items: strip every item, keep the
\* non-empty ones
RECURSIVE validate_non_empty_items(_)
validate_non_empty_items(values) ==
    IF values = <<>> THEN <<>>
    ELSE LET item == strip(Head(values))
             rest == validate_non_empty_items(Tail(values))
         IN  IF item # <<>> THEN <<item>> \o rest ELSE rest

\* one list field: Field(min_length=1), then the validator's "if not cleaned"
ListFieldValid(values) ==
    Len(values) >= 1 /\ validate_non_empty_items(values) # <<>>

\* FlashcardFeedback._trim_quality
trim_quality(value) == strip(value)

\* variant: overall_quality may be absent
FlashcardFeedbackValidDefaultQuality(members) ==
    /\ ListFields \subseteq members.keys
    /\ ListFieldValid(members.strengths)
    /\ ListFieldValid(members.weaknesses)
    /\ ListFieldValid(members.recommendations)
    /\ "overall_quality" \in members.keys
         => trim_quality(members.overall_quality) # <<>>

\* FlashcardFeedback.model_validate of a decoded object: members.keys is the
\* set of keys the object holds
FlashcardFeedbackValid(members) ==
    /\ FeedbackKeys \subseteq members.keys
    /\ ListFieldValid(members.strengths)
    /\ ListFieldValid(members.weaknesses)
    /\ ListFieldValid(members.recommendations)
    /\ trim_quality(members.overall_quality) # <<>>

FlashcardFeedback(members) ==
    [strengths       |-> validate_non_empty_items(members.strengths),
     weaknesses      |-> validate_non_empty_items(members.weaknesses),
     recommendations |-> validate_non_empty_items(members.recommendations),
     overall_quality |-> trim_quality(members.overall_quality)]

(***************************************************************************)
(* Response texts.                                                         *)
(***************************************************************************)
\* array tokens
ATok(k) == [t |-> k, question |-> <<>>, answer |-> <<>>]

ObjTok(q, a) == [t |-> "obj", question |-> q, answer |-> a]

\* the objects a response may hold: a clean card, a card padded with
\* whitespace, a card with a blank question, a card with a blank answer
CardObjects ==
    { ObjTok(<<"a">>, <<"b">>),
      ObjTok(<<" ", "b", " ">>, <<"a", " ">>),
      ObjTok(<<" ">>, <<"a">>),
      ObjTok(<<"b">>, <<" ", " ">>) }

ArrayTokens == { ATok("["), ATok("]"), ATok(" "), ATok("n") } \cup CardObjects

\* object tokens
NoMembers ==
    [keys |-> {}, strengths |-> <<>>, weaknesses |-> <<>>,
     recommendations |-> <<>>, overall_quality |-> <<>>]

OTok(k) == [t |-> k, members |-> NoMembers]

MembersTok(m) == [t |-> "members", members |-> m]

\* a complete feedback object, with padded and blank list items
GoodMembers ==
    [keys |-> FeedbackKeys,
     strengths |-> << <<" ", "a">>, <<" ">> >>,
     weaknesses |-> << <<"b">> >>,
     recommendations |-> << <<"a">>, <<"b", " ">> >>,
     overall_quality |-> <<" ", "a", " ">>]

\* the member lists a reflection response may hold: complete, one key
\* missing, a list of blanks only, a blank overall_quality
SampleMembers ==
    { GoodMembers,
      [GoodMembers EXCEPT !.overall_quality = <<"b">>],
      [GoodMembers EXCEPT !.keys = FeedbackKeys \ {"weaknesses"},
                          !.weaknesses = <<>>],
      [GoodMembers EXCEPT !.strengths = << <<" ">> >>],
      [GoodMembers EXCEPT !.overall_quality = <<" ">>] }

ObjectTokens ==
    { OTok("{"), OTok("}"), OTok(" "), OTok("n") }
        \cup { MembersTok(m) : m \in SampleMembers }

\* all texts of at most n tokens
SeqsUpTo(S, n) == UNION { [1..k -> S] : k \in 0..n }

ArrayTexts == SeqsUpTo(ArrayTokens, MaxTextLen)

ObjectTexts == SeqsUpTo(ObjectTokens, MaxTextLen - 1)

\* str.find(ch): index of the first occurrence, counted from 0, or -1
find(text, ch) ==
    LET hits == { i \in 1..Len(text) : text[i].t = ch }
    IN  IF hits = {} THEN -1
        ELSE (CHOOSE i \in hits : \A j \in hits : i <= j) - 1

\* str.rfind(ch): index of the last occurrence, counted from 0, or -1
rfind(text, ch) ==
    LET hits == { i \in 1..Len(text) : text[i].t = ch }
    IN  IF hits = {} THEN -1
        ELSE (CHOOSE i \in hits : \A j \in hits : i >= j) - 1

\* variant: the slice stops one token early
SliceShort(text, start, stop) ==
    LET hi == IF stop - 1 > Len(text) THEN Len(text) ELSE stop - 1
    IN  IF start >= hi THEN <<>> ELSE SubSeq(text, start + 1, hi)

\* text[start:stop] for 0 <= start, 0 <= stop
Slice(text, start, stop) ==
    LET hi == IF stop > Len(text) THEN Len(text) ELSE stop
    IN  IF start >= hi THEN <<>> ELSE SubSeq(text, start + 1, hi)

\* leading and trailing whitespace tokens removed: str.strip() of a text
RECURSIVE lstripText(_)
lstripText(text) ==
    IF text = <<>> THEN <<>>
    ELSE IF Head(text).t = " " THEN lstripText(Tail(text)) ELSE text

RECURSIVE rstripText(_)
rstripText(text) ==
    IF text = <<>> THEN <<>>
    ELSE IF text[Len(text)].t = " "
         THEN rstripText(SubSeq(text, 1, Len(text) - 1)) ELSE text

stripText(text) == rstripText(lstripText(text))

\* JSON ignores whitespace between tokens
NoSpace(text) == SelectSeq(text, LAMBDA tok : tok.t # " ")

(***************************************************************************)
(* Errors and results.                                                     *)
(***************************************************************************)
Error(type, msg) == [type |-> type, msg |-> msg]

NoError == Error("", "")

\* the result of a phase: the value returned, or the exception raised
Returned(cards, fb) == [ok |-> TRUE, cards |-> cards, feedback |-> fb, err |-> NoError]

Raised(e) == [ok |-> FALSE, cards |-> <<>>, feedback |-> NoFeedback, err |-> e]

(***************************************************************************)
(* Completion client adapter (workflow.py, call_ai_model).                 *)
(***************************************************************************)
\* what the provider does with a request: raise, answer without choices,
\* answer with content None, answer with a text
ProviderKinds == {"raise", "nochoices", "nocontent", "text"}

\* variant: the provider's exception leaves call_ai_model unwrapped
call_ai_model_unwrapped(kind) ==
    CASE kind = "raise"     -> Error("ProviderError", "API error")
      [] kind = "nochoices" -> Error("IndexError", "list index out of range")
      [] kind = "nocontent" ->
             Error("AttributeError", "'NoneType' object has no attribute 'strip'")
      [] OTHER              -> NoError

\* the error call_ai_model ends with, NoError when it returns
call_ai_model_error(kind) ==
    CASE kind = "raise"     -> Error("Exception", "Error calling AI model")
      [] kind = "nochoices" -> Error("IndexError", "list index out of range")
      [] kind = "nocontent" ->
             Error("AttributeError", "'NoneType' object has no attribute 'strip'")
      [] OTHER              -> NoError

\* the text call_ai_model returns: response.choices[0].message.content.strip()
call_ai_model_text(text) == stripText(text)

(***************************************************************************)
(* Response parser (workflow.py).                                          *)
(***************************************************************************)
\* nesting depth after each token of a text without whitespace; -1 once the
\* text cannot be a JSON value any more
RECURSIVE Depth(_, _, _, _)
Depth(toks, i, d, open) ==
    IF i > Len(toks) THEN d
    ELSE IF d = 0 /\ i > 1 THEN -1
    ELSE IF toks[i].t = open THEN Depth(toks, i + 1, d + 1, open)
    ELSE IF toks[i].t \in {"]", "}"}
         THEN IF d = 0 THEN -1 ELSE Depth(toks, i + 1, d - 1, open)
    ELSE IF toks[i].t = "n" \/ d = 0 THEN -1
    ELSE Depth(toks, i + 1, d, open)

\* the slice decodes as JSON: one array whose values are objects and arrays
JsonArray(slice) ==
    LET toks == NoSpace(slice)
    IN  toks # <<>> /\ Depth(toks, 1, 0, "[") = 0

\* the values of a decoded array, when every one of them is an object
ArrayItems(slice) ==
    LET toks == NoSpace(slice) IN SubSeq(toks, 2, Len(toks) - 1)

AllObjects(items) == \A i \in 1..Len(items) : items[i].t = "obj"

\* FlashcardList.model_validate_json(json_str) succeeds
FlashcardListJsonValid(json_str) ==
    /\ JsonArray(json_str)
    /\ AllObjects(ArrayItems(json_str))
    /\ FlashcardListValid(ArrayItems(json_str))

\* variant: content that is not well-formed JSON has an error of its own
parse_ai_response_distinct(response_content) ==
    LET json_start == find(response_content, "[")
        json_end   == rfind(response_content, "]") + 1
        json_str   == Slice(response_content, json_start, json_end)
    IN  IF json_start = -1 \/ json_end = 0
        THEN Raised(Error("ValueError", "Could not find JSON array in response"))
        ELSE IF ~JsonArray(json_str)
        THEN Raised(Error("ValueError", "Invalid JSON in response"))
        ELSE IF ~FlashcardListJsonValid(json_str)
        THEN Raised(Error("ValueError", "Flashcard schema validation failed"))
        ELSE Returned(FlashcardList(ArrayItems(json_str)), NoFeedback)

parse_ai_response(response_content) ==
    LET json_start == find(response_content, "[")
        json_end   == rfind(response_content, "]") + 1
        json_str   == Slice(response_content, json_start, json_end)
    IN  IF json_start = -1 \/ json_end = 0
        THEN Raised(Error("ValueError", "Could not find JSON array in response"))
        ELSE IF ~FlashcardListJsonValid(json_str)
        THEN Raised(Error("ValueError", "Flashcard schema validation failed"))
        ELSE Returned(FlashcardList(ArrayItems(json_str)), NoFeedback)

\* the slice decodes as a JSON object: "{", member lists, "}"
JsonObject(target) ==
    LET toks == NoSpace(target)
    IN  /\ Len(toks) >= 2
        /\ toks[1].t = "{"
        /\ toks[Len(toks)].t = "}"
        /\ \A i \in 2..(Len(toks) - 1) : toks[i].t = "members"

\* a key given twice keeps its last value
MergeMembers(m1, m2) ==
    [keys            |-> m1.keys \cup m2.keys,
     strengths       |-> IF "strengths" \in m2.keys
                         THEN m2.strengths ELSE m1.strengths,
     weaknesses      |-> IF "weaknesses" \in m2.keys
                         THEN m2.weaknesses ELSE m1.weaknesses,
     recommendations |-> IF "recommendations" \in m2.keys
                         THEN m2.recommendations ELSE m1.recommendations,
     overall_quality |-> IF "overall_quality" \in m2.keys
                         THEN m2.overall_quality ELSE m1.overall_quality]

RECURSIVE MembersOf(_, _)
MembersOf(toks, i) ==
    IF i < 2 THEN NoMembers
    ELSE MergeMembers(MembersOf(toks, i - 1), toks[i].members)

\* the decoded object
ObjectMembers(target) ==
    LET toks == NoSpace(target) IN MembersOf(toks, Len(toks) - 1)

\* FlashcardFeedback.model_validate_json(target) succeeds
FeedbackJsonValid(target) ==
    JsonObject(target) /\ FlashcardFeedbackValid(ObjectMembers(target))

parse_feedback_response(response_content) ==
    LET json_start == find(response_content, "{")
        json_end   == rfind(response_content, "}") + 1
        target     == IF json_start # -1 /\ json_end # 0
                      THEN Slice(response_content, json_start, json_end)
                      ELSE response_content
    IN  IF ~FeedbackJsonValid(target)
        THEN Raised(Error("ValueError", "Feedback schema validation failed"))
        ELSE Returned(<<>>, FlashcardFeedback(ObjectMembers(target)))

(***************************************************************************)
(* Phases of the workflow (workflow.py).                                   *)
(***************************************************************************)
\* generate_qa_pairs: the adapter call, then parse_ai_response; kind and
\* text are what the provider does with the request
generate_qa_pairs(kind, text) ==
    IF call_ai_model_error(kind) # NoError
    THEN Raised(call_ai_model_error(kind))
    ELSE parse_ai_response(call_ai_model_text(text))

\* reflect_on_qa_pairs: the adapter call, then parse_feedback_response
reflect_on_qa_pairs(kind, text) ==
    IF call_ai_model_error(kind) # NoError
    THEN Raised(call_ai_model_error(kind))
    ELSE parse_feedback_response(call_ai_model_text(text))

\* improve_qa_pairs: generate_qa_pairs with an improvement context
improve_qa_pairs(kind, text) == generate_qa_pairs(kind, text)

\* the system prompt generate_qa_pairs sends
GenerationSystemPrompt(improvement_context) ==
    IF improvement_context THEN "IMPROVEMENT_PROMPT" ELSE "GENERATION_PROMPT"

\* the request of one adapter call: the system prompt and what the user
\* prompt of the phase embeds
Request(ph, cycle, cards, fb) ==
    [phase  |-> ph,
     cycle  |-> cycle,
     system_prompt |-> IF ph = "reflection" THEN "REFLECTION_PROMPT"
                       ELSE GenerationSystemPrompt(ph = "improvement"),
     qa_pairs |-> IF ph = "generation" THEN <<>> ELSE cards,
     feedback |-> IF ph = "improvement" THEN fb ELSE NoFeedback]

\* feedback.get('overall_quality', 'unknown') in the progress message of the
\* loop: feedback is a FlashcardFeedback, a pydantic model, which defines no
\* attribute "get"
ReflectionNotice(fb) ==
    Raised(Error("AttributeError",
                 "'FlashcardFeedback' object has no attribute 'get'"))

\* variant: range(max_reflections + 1)
LoopContinuesOneMore(reflection_num, max_reflections) ==
    reflection_num <= max_reflections

\* for reflection_num in range(max_reflections): the loop body runs again
LoopContinues(reflection_num, max_reflections) == reflection_num < max_reflections

\* variant: the preview exit is never taken
PreviewExitIgnored(preview_only) == FALSE

\* if preview_only: the exit taken right after generation
PreviewExit(preview_only) == preview_only

\* variant: a failed phase leaves the run blocked
OnRaiseHang(ph) == "hang"

\* variant: a failed phase falls back to finalizing the current card set
OnRaiseFinalize(ph) == "report"

\* variant: a failed phase is tried again
OnRaiseRetry(ph) == "call"

\* where the run goes when a phase raises: generate_anki_cards catches
\* nothing, the exception leaves it
OnRaise(ph) == "error"

\* variant: the cards are taken out of the list as they are serialised
format_flashcards_for_prompt_consuming(cards) == <<>>

\* _format_flashcards_for_prompt, what it leaves in the list it is passed:
\* card.model_dump() builds a new dict for every card and writes to none
format_flashcards_for_prompt(cards) == cards

\* variant: the report loses its last card
generate_md_report_short(cards) ==
    [total |-> Len(cards),
     cards |-> IF cards = <<>> THEN <<>> ELSE SubSeq(cards, 1, Len(cards) - 1)]

\* generate_md_report: the document written, the count and the cards in order
generate_md_report(cards) == [total |-> Len(cards), cards |-> cards]

\* build_anki_deck: one note per card, fields [question, answer]
build_anki_deck(cards) ==
    [i \in 1..Len(cards) |-> <<cards[i].question, cards[i].answer>>]

(***************************************************************************)
(* One run of generate_anki_cards.                                         *)
(***************************************************************************)
VARIABLES
    file,             \* what file_path names
    preview_only,     \* argument
    max_reflections,  \* argument
    pc,               \* position of the run
    phase,            \* the phase whose adapter call is next or in flight
    reflection_num,   \* the loop variable
    qa_pairs,         \* the current card set
    feedback,         \* the feedback of the current cycle
    calls,            \* the requests sent to the adapter, in order
    returns,          \* the outcome of every adapter call that has ended
    stdout,           \* the progress notifications printed
    md_report,        \* the reports written, in order
    deck,             \* the notes of the deck built
    apkg,             \* the packages written, in order
    err,              \* the exception that ended the run
    heap,             \* the contents of every card list created, in order
    op,               \* the operation applied on its own, "run" for a run
    arg,              \* the argument of that operation
    res               \* its result

vars == <<file, preview_only, max_reflections, pc, phase, reflection_num,
          qa_pairs, feedback, calls, returns, stdout, md_report, deck, apkg,
          err, heap, op, arg, res>>

\* the result of an operation that has not been applied yet
Pending == [done |-> FALSE, out |-> <<>>]

Done(out) == [done |-> TRUE, out |-> out]

FileStates == {"missing", "directory", "unreadable", "blank", "ok"}

\* variant: a file that holds only whitespace is accepted
InputErrorBlankAccepted(f) ==
    CASE f = "missing"    -> Error("FileNotFoundError", "Input file not found")
      [] f = "directory"  -> Error("ValueError", "Path is not a file")
      [] f = "unreadable" -> Error("Exception", "Error reading file")
      [] OTHER            -> NoError

\* validate_input_file, then read_input_file
InputError(f) ==
    CASE f = "missing"    -> Error("FileNotFoundError", "Input file not found")
      [] f = "directory"  -> Error("ValueError", "Path is not a file")
      [] f = "unreadable" -> Error("Exception", "Error reading file")
      [] f = "blank"      -> Error("ValueError", "Input file is empty")
      [] OTHER            -> NoError

Line(tag, n) == [tag |-> tag, n |-> n]

Init ==
    /\ file \in FileStates
    /\ preview_only \in BOOLEAN
    /\ max_reflections \in (-1)..MaxReflections
    /\ pc = "start"
    /\ phase = "generation"
    /\ reflection_num = 0
    /\ qa_pairs = <<>>
    /\ feedback = NoFeedback
    /\ calls = <<>>
    /\ returns = <<>>
    /\ stdout = <<>>
    /\ md_report = <<>>
    /\ deck = <<>>
    /\ apkg = <<>>
    /\ err = NoError
    /\ heap = <<>>
    /\ op = "run"
    /\ arg = <<>>
    /\ res = Pending

\* lines 355-365: the input is validated and read, the client is created and
\* the generation is announced
Start ==
    /\ pc = "start"
    /\ IF InputError(file) # NoError
       THEN /\ err' = InputError(file)
            /\ pc' = "error"
            /\ UNCHANGED stdout
       ELSE /\ stdout' = Append(stdout, Line("Generating initial Q&A pairs", 0))
            /\ pc' = "call"
            /\ UNCHANGED err
    /\ UNCHANGED <<op, arg, res, heap, file, preview_only, max_reflections, phase, reflection_num,
                   qa_pairs, feedback, calls, returns, md_report, deck, apkg>>

\* the prompt of the phase is built and the request is sent: call_ai_model
\* enters client.chat.completions.create
IssueCall ==
    /\ pc = "call"
    /\ calls' = Append(calls,
                       Request(phase,
                               IF phase = "generation" THEN 0
                               ELSE reflection_num + 1,
                               qa_pairs, feedback))
    /\ heap' = IF phase = "generation" THEN heap
               ELSE [heap EXCEPT ![Len(heap)] =
                        format_flashcards_for_prompt(heap[Len(heap)])]
    /\ pc' = "wait"
    /\ UNCHANGED <<op, arg, res, file, preview_only, max_reflections, phase, reflection_num,
                   qa_pairs, feedback, returns, stdout, md_report, deck, apkg,
                   err>>

\* the run after a phase has raised e
Abort(e) ==
    [pc |-> OnRaise(phase), phase |-> phase, reflection_num |-> reflection_num,
     qa_pairs |-> qa_pairs, feedback |-> feedback, err |-> e, out |-> <<>>]

\* variant: the generated card set is not checked for being empty
AfterGenerationUnguarded(cards) ==
    LET out == << Line("Generated initial Q&A pairs", Len(cards)) >>
        base == [pc |-> "report", phase |-> phase, reflection_num |-> 0,
                 qa_pairs |-> cards, feedback |-> feedback, err |-> NoError,
                 out |-> out]
    IN  IF PreviewExit(preview_only)
        THEN [base EXCEPT !.pc = "preview"]
        ELSE IF LoopContinues(0, max_reflections)
        THEN [base EXCEPT !.pc = "call", !.phase = "reflection",
                          !.out = out \o << Line("Reflection cycle", 1) >>]
        ELSE base

\* lines 366-381: the run after the generation has returned cards
AfterGeneration(cards) ==
    LET out == << Line("Generated initial Q&A pairs", Len(cards)) >>
        base == [pc |-> "report", phase |-> phase, reflection_num |-> 0,
                 qa_pairs |-> cards, feedback |-> feedback, err |-> NoError,
                 out |-> out]
    IN  IF cards = <<>>
        THEN [base EXCEPT !.pc = OnRaise(phase),
                          !.err = Error("ValueError", "No valid Q&A pairs found")]
        ELSE IF PreviewExit(preview_only)
        THEN [base EXCEPT !.pc = "preview"]
        ELSE IF LoopContinues(0, max_reflections)
        THEN [base EXCEPT !.pc = "call", !.phase = "reflection",
                          !.out = out \o << Line("Reflection cycle", 1) >>]
        ELSE base

\* lines 384-389: the run after the reflection has returned feedback
AfterReflection(fb) ==
    LET notice == ReflectionNotice(fb)
        base == [pc |-> "call", phase |-> "improvement",
                 reflection_num |-> reflection_num, qa_pairs |-> qa_pairs,
                 feedback |-> fb, err |-> NoError,
                 out |-> << Line("Reflection complete", 0) >>]
    IN  IF ~notice.ok
        THEN [base EXCEPT !.pc = OnRaise(phase), !.phase = phase,
                          !.err = notice.err, !.out = <<>>]
        ELSE base

\* lines 392-395 and 380-381: the run after the improvement has returned cards
AfterImprovement(cards) ==
    LET out == << Line("Improved to Q&A pairs", Len(cards)) >>
        base == [pc |-> "report", phase |-> phase,
                 reflection_num |-> reflection_num + 1, qa_pairs |-> cards,
                 feedback |-> feedback, err |-> NoError, out |-> out]
    IN  IF LoopContinues(reflection_num + 1, max_reflections)
        THEN [base EXCEPT !.pc = "call", !.phase = "reflection",
                          !.out = out \o << Line("Reflection cycle",
                                                 reflection_num + 2) >>]
        ELSE [base EXCEPT !.reflection_num = reflection_num]

\* the adapter call in flight ends, the phase parses the response and the
\* run goes on to its next call or to the report
AdapterReturns ==
    /\ pc = "wait"
    /\ \E kind \in ProviderKinds :
       \E text \in (IF kind # "text" THEN {<<>>}
                    ELSE IF phase = "reflection" THEN ObjectTexts
                    ELSE ArrayTexts) :
         LET r == CASE phase = "generation" -> generate_qa_pairs(kind, text)
                    [] phase = "reflection" -> reflect_on_qa_pairs(kind, text)
                    [] OTHER                -> improve_qa_pairs(kind, text)
             next == IF ~r.ok THEN Abort(r.err)
                     ELSE CASE phase = "generation" -> AfterGeneration(r.cards)
                            [] phase = "reflection" -> AfterReflection(r.feedback)
                            [] OTHER                -> AfterImprovement(r.cards)
         IN  /\ returns' = Append(returns,
                                  [phase    |-> phase,
                                   adapter  |-> call_ai_model_error(kind) = NoError,
                                   ok       |-> r.ok,
                                   cards    |-> r.cards,
                                   feedback |-> r.feedback])
             /\ pc' = next.pc
             /\ phase' = next.phase
             /\ reflection_num' = next.reflection_num
             /\ qa_pairs' = next.qa_pairs
             /\ feedback' = next.feedback
             /\ err' = next.err
             /\ stdout' = stdout \o next.out
             /\ heap' = IF r.ok /\ phase # "reflection"
                        THEN Append(heap, r.cards) ELSE heap
    /\ UNCHANGED <<op, arg, res, file, preview_only, max_reflections, calls, md_report, deck,
                   apkg>>

\* generate_md_report at line 375 (preview) or line 398: the report file is
\* written, or open() fails
WriteReport ==
    /\ pc \in {"preview", "report"}
    /\ \E written \in BOOLEAN :
         IF written
         THEN /\ md_report' = Append(md_report, generate_md_report(qa_pairs))
              /\ pc' = IF pc = "preview" THEN "done" ELSE "package"
              /\ stdout' = IF pc = "preview"
                           THEN Append(stdout, Line("Preview report saved", 0))
                           ELSE stdout
              /\ UNCHANGED err
         ELSE /\ err' = Error("OSError", "cannot open report file")
              /\ pc' = "error"
              /\ UNCHANGED <<md_report, stdout>>
    /\ UNCHANGED <<op, arg, res, heap, file, preview_only, max_reflections, phase, reflection_num,
                   qa_pairs, feedback, calls, returns, deck, apkg>>

\* lines 401-408: build_anki_deck, then write_anki_package, which writes the
\* package or fails
WritePackage ==
    /\ pc = "package"
    /\ IF qa_pairs = <<>>
       THEN /\ err' = Error("ValueError", "No valid Q&A pairs found in the response")
            /\ pc' = "error"
            /\ UNCHANGED <<deck, apkg, stdout>>
       ELSE /\ deck' = build_anki_deck(qa_pairs)
            /\ \E written \in BOOLEAN :
                 IF written
                 THEN /\ apkg' = Append(apkg, deck')
                      /\ stdout' = Append(stdout,
                                          Line("Successfully generated Anki cards",
                                               Len(deck')))
                      /\ pc' = "done"
                      /\ UNCHANGED err
                 ELSE /\ err' = Error("Exception", "Error creating Anki package")
                      /\ pc' = "error"
                      /\ UNCHANGED <<apkg, stdout>>
    /\ UNCHANGED <<op, arg, res, heap, file, preview_only, max_reflections, phase, reflection_num,
                   qa_pairs, feedback, calls, returns, md_report>>

Next ==
    \/ Start
    \/ IssueCall
    \/ AdapterReturns
    \/ WriteReport
    \/ WritePackage

Spec == Init /\ [][Next]_vars

(***************************************************************************)
(* Properties of the workflow.                                             *)
(***************************************************************************)
\* every adapter call that has ended returned a value its parser accepted
AllReturnsValid == \A i \in 1..Len(returns) : returns[i].ok

\* the run has left the adapter calls behind: it writes artifacts or has ended
PastCalls == pc \in {"preview", "report", "package", "done", "error"}

RoundTrips == IF max_reflections < 0 THEN 0 ELSE max_reflections

\* the phase of the i-th call of a run that never fails
ExpectedPhase(i) ==
    IF i = 1 THEN "generation"
    ELSE IF i % 2 = 0 THEN "reflection" ELSE "improvement"

NonBlank(s) == s # <<>> /\ strip(s) = s

ValidCards(cards) ==
    /\ Len(cards) >= 1
    /\ \A i \in 1..Len(cards) :
         NonBlank(cards[i].question) /\ NonBlank(cards[i].answer)

\* C1: a full run (not a preview) with max_reflections = N >= 0 whose adapter
\* calls all return valid responses has invoked the adapter exactly 1 + 2N
\* times when it leaves the loop: one generation, then N times a reflection
\* followed by an improvement.
C1_FullRunCallCount ==
    (/\ PastCalls
     /\ file = "ok"
     /\ ~preview_only
     /\ max_reflections >= 0
     /\ AllReturnsValid)
    => /\ Len(calls) = 1 + 2 * max_reflections
       /\ \A i \in 1..Len(calls) : calls[i].phase = ExpectedPhase(i)

\* C2: in every run the calls issued so far are a prefix of generation,
\* (reflection, improvement) x max_reflections, and a call is issued only
\* when every earlier call has ended.
C2_CallPrefix ==
    /\ Len(calls) <= 1 + 2 * RoundTrips
    /\ \A i \in 1..Len(calls) :
         /\ calls[i].phase = ExpectedPhase(i)
         /\ calls[i].cycle = i \div 2
    /\ Len(calls) - Len(returns) = (IF pc = "wait" THEN 1 ELSE 0)

C2_Witness ==
    /\ Len(calls) = 2
    /\ Len(returns) = 2
    /\ calls[2].phase = "reflection"
    /\ max_reflections = 1

\* C3: when an adapter call or the parse of its response has failed, the run
\* has ended in an error and has written neither a report nor a package.
C3_FailureAborts ==
    (\E i \in 1..Len(returns) : ~returns[i].ok)
    => /\ pc = "error"
       /\ err # NoError
       /\ md_report = <<>>
       /\ deck = <<>>
       /\ apkg = <<>>

C3_Witness ==
    /\ Len(returns) = 2
    /\ returns[2].phase = "reflection"
    /\ returns[2].adapter
    /\ ~returns[2].ok
    /\ pc = "error"

\* C4: the card set that reaches the report writer and the deck builder is
\* never empty, and every card of it has a non-empty trimmed question and a
\* non-empty trimmed answer.
C4_FinalizedCardsValid ==
    /\ pc \in {"preview", "report", "package", "done"} => ValidCards(qa_pairs)
    /\ \A i \in 1..Len(md_report) :
         md_report[i].total >= 1 /\ ValidCards(md_report[i].cards)
    /\ \A i \in 1..Len(apkg) :
         /\ Len(apkg[i]) >= 1
         /\ \A j \in 1..Len(apkg[i]) :
              NonBlank(apkg[i][j][1]) /\ NonBlank(apkg[i][j][2])

C4_Witness ==
    /\ pc = "done"
    /\ Len(apkg) = 1
    /\ Len(md_report) = 1
    /\ Len(qa_pairs) = 2
    /\ qa_pairs[2] = [question |-> <<"b">>, answer |-> <<"a">>]

\* C5: the progress notifications change no transition: once a reflection
\* call has returned feedback that passes validation, the run goes on to
\* issue the improvement call of that cycle.
C5_ReflectionThenImprovement ==
    \A k \in 1..Len(returns) :
      (returns[k].phase = "reflection" /\ returns[k].ok)
      => \/ Len(calls) > k /\ calls[k + 1].phase = "improvement"
         \/ Len(calls) = k /\ pc = "call" /\ phase = "improvement"

\* C6: in a full run with max_reflections >= 1 whose responses are all valid,
\* the card set the run leaves the loop with, and the card set of every
\* report and package, is the list parsed from the last improvement response.
C6_LastImprovementFinalized ==
    (/\ PastCalls
     /\ file = "ok"
     /\ ~preview_only
     /\ max_reflections >= 1
     /\ AllReturnsValid)
    => /\ returns[Len(returns)].phase = "improvement"
       /\ qa_pairs = returns[Len(returns)].cards
       /\ \A i \in 1..Len(md_report) :
            md_report[i].cards = returns[Len(returns)].cards

\* C7: a run with preview_only issues the generation call and no other,
\* builds no deck and writes no package; when it is done it has issued
\* exactly that one call and written the report once, from the generated
\* cards.
C7_PreviewRun ==
    preview_only
    => /\ Len(calls) <= 1
       /\ \A i \in 1..Len(calls) : calls[i].phase = "generation"
       /\ Len(md_report) <= 1
       /\ deck = <<>>
       /\ apkg = <<>>
       /\ pc = "done"
          => /\ Len(calls) = 1
             /\ Len(returns) = 1
             /\ Len(md_report) = 1
             /\ md_report[1].total = Len(returns[1].cards)
             /\ md_report[1].cards = returns[1].cards

C7_Witness ==
    /\ preview_only
    /\ max_reflections = 2
    /\ pc = "done"
    /\ Len(md_report) = 1

\* C8 as stated: every run that finalizes, by the preview exit or in full,
\* leaves the artifacts of a full run on its card set: the report of the
\* cards and the package of their notes.
C8_PreviewSameArtifacts ==
    pc = "done"
    => /\ md_report = << [total |-> Len(qa_pairs), cards |-> qa_pairs] >>
       /\ apkg = << [i \in 1..Len(qa_pairs) |->
                        <<qa_pairs[i].question, qa_pairs[i].answer>>] >>

\* C8: a run that finalizes, by the preview exit or in full, has written the
\* same report for the same card set (the count and the cards in order); the
\* preview exit builds no deck and writes no package, the full run writes
\* the package of one note per card.
C8_PreviewSameReport ==
    pc = "done"
    => /\ md_report = << [total |-> Len(qa_pairs), cards |-> qa_pairs] >>
       /\ preview_only => deck = <<>> /\ apkg = <<>>
       /\ ~preview_only
          => apkg = << [i \in 1..Len(qa_pairs) |->
                           <<qa_pairs[i].question, qa_pairs[i].answer>>] >>

C8_Witness ==
    /\ pc = "done"
    /\ preview_only
    /\ Len(qa_pairs) = 2
    /\ apkg = <<>>
    /\ md_report # <<>>

\* C9: the workflow never retries: an adapter call that has failed is the
\* last call of its run, and the run has ended in an error.
C9_NoRetry ==
    \A i \in 1..Len(returns) :
      ~returns[i].adapter
      => /\ i = Len(returns)
         /\ Len(calls) = i
         /\ pc = "error"
         /\ err # NoError

C9_Witness ==
    /\ Len(returns) = 2
    /\ ~returns[2].adapter
    /\ Len(calls) = 2
    /\ pc = "error"

\* C10 as stated: the error of a run that a phase has aborted identifies the
\* phase: its message names the generation, the reflection or the
\* improvement.
C10_ErrorNamesPhase ==
    (pc = "error" /\ returns # <<>> /\ ~returns[Len(returns)].ok)
    => LET named == CASE err.msg = "Feedback schema validation failed"
                             -> "reflection"
                      [] OTHER -> "none"
       IN  named = returns[Len(returns)].phase

\* C10: the error that aborts a run reaches the caller as it was raised,
\* with no phase context: it is one of the exceptions the operations raise,
\* an adapter failure is the same error in every phase, and a response that
\* does not parse is a ValueError of the parser.
C10_ErrorUnchanged ==
    pc = "error"
    => /\ err \in
            { Error("FileNotFoundError", "Input file not found"),
              Error("ValueError", "Path is not a file"),
              Error("Exception", "Error reading file"),
              Error("ValueError", "Input file is empty"),
              Error("Exception", "Error calling AI model"),
              Error("IndexError", "list index out of range"),
              Error("AttributeError", "'NoneType' object has no attribute 'strip'"),
              Error("ValueError", "Could not find JSON array in response"),
              Error("ValueError", "Flashcard schema validation failed"),
              Error("ValueError", "Feedback schema validation failed"),
              Error("AttributeError",
                    "'FlashcardFeedback' object has no attribute 'get'"),
              Error("OSError", "cannot open report file"),
              Error("Exception", "Error creating Anki package") }
       /\ (returns # <<>> /\ ~returns[Len(returns)].adapter)
          => err \in
               { Error("Exception", "Error calling AI model"),
                 Error("IndexError", "list index out of range"),
                 Error("AttributeError",
                       "'NoneType' object has no attribute 'strip'") }
       /\ (returns # <<>> /\ returns[Len(returns)].adapter
             /\ ~returns[Len(returns)].ok)
          => err \in
               { Error("ValueError", "Could not find JSON array in response"),
                 Error("ValueError", "Flashcard schema validation failed"),
                 Error("ValueError", "Feedback schema validation failed") }

C10_Witness ==
    /\ pc = "error"
    /\ Len(returns) = 2
    /\ returns[2].phase = "reflection"
    /\ ~returns[2].adapter
    /\ err = Error("Exception", "Error calling AI model")

\* C11: a run requested with max_reflections < 0 never reaches the report,
\* the deck or the package: it fails with a configuration error.
C11_NegativeBoundRejected ==
    max_reflections < 0
    => /\ pc \notin {"preview", "report", "package", "done"}
       /\ md_report = <<>>
       /\ apkg = <<>>
       /\ (pc = "error" /\ file = "ok") => err.type = "ConfigError"

(***************************************************************************)
(* Prompt builder (prompts.py).  A system prompt is its role line, the SGR *)
(* instructions of a preset and the schema it embeds.                      *)
(***************************************************************************)
AVAILABLE_PRESETS == {"general", "cloze", "concepts", "procedures", "programming"}

\* the presets with instructions of their own; every other name takes the
\* branch "default: general"
SpecializedPresets == {"cloze", "concepts", "procedures", "programming"}

\* variant: a name outside the specialized presets gets no instructions
sgr_generation_strict(preset) ==
    IF preset \in SpecializedPresets THEN <<"generation", preset>>
    ELSE IF preset = "general" THEN <<"generation", "general">>
    ELSE <<"generation", "">>

\* _sgr_generation
sgr_generation(preset) ==
    IF preset \in SpecializedPresets THEN <<"generation", preset>>
    ELSE <<"generation", "general">>

\* _sgr_reflection
sgr_reflection(preset) ==
    IF preset \in SpecializedPresets THEN <<"reflection", preset>>
    ELSE <<"reflection", "general">>

\* _sgr_improvement
sgr_improvement(preset) ==
    IF preset \in SpecializedPresets THEN <<"improvement", preset>>
    ELSE <<"improvement", "general">>

SystemPrompt(role, sgr, schema) == [role |-> role, sgr |-> sgr, schema |-> schema]

\* get_system_prompts: (generation, reflection, improvement); it raises nothing
get_system_prompts(preset) ==
    [ok  |-> TRUE,
     gen |-> SystemPrompt("creating", sgr_generation(preset), "FLASHCARD_SCHEMA"),
     ref |-> SystemPrompt("evaluator", sgr_reflection(preset), "FEEDBACK_SCHEMA"),
     imp |-> SystemPrompt("improving", sgr_improvement(preset), "FLASHCARD_SCHEMA"),
     err |-> NoError]

(***************************************************************************)
(* The contract and the prompt builder applied on their own.               *)
(***************************************************************************)
MaxStrLen == 3

Chars == {" ", "a", "b"}

Strings == SeqsUpTo(Chars, MaxStrLen)

\* the preset names asked for: the presets, and names that are none of them
PresetNames == AVAILABLE_PRESETS \cup {"not-a-real-preset", "Cloze", ""}

NoCard == [question |-> <<>>, answer |-> <<>>]

\* Flashcard(question=.., answer=..): the card, or pydantic's ValidationError
NewFlashcard(obj) ==
    IF FlashcardValid(obj)
    THEN [ok |-> TRUE, card |-> Flashcard(obj), err |-> NoError]
    ELSE [ok |-> FALSE, card |-> NoCard,
          err |-> Error("ValidationError", "Value must be a non-empty string")]

\* no run is in progress
Idle ==
    /\ file = "ok"
    /\ preview_only = FALSE
    /\ max_reflections = 0
    /\ pc = "idle"
    /\ phase = "generation"
    /\ reflection_num = 0
    /\ qa_pairs = <<>>
    /\ feedback = NoFeedback
    /\ calls = <<>>
    /\ returns = <<>>
    /\ stdout = <<>>
    /\ md_report = <<>>
    /\ deck = <<>>
    /\ apkg = <<>>
    /\ err = NoError
    /\ heap = <<>>

run == <<file, preview_only, max_reflections, pc, phase, reflection_num,
         qa_pairs, feedback, calls, returns, stdout, md_report, deck, apkg,
         err, heap>>

ContractInit ==
    /\ Idle
    /\ res = Pending
    /\ \/ op = "Flashcard" /\ arg \in [question : Strings, answer : Strings]
       \/ op = "get_system_prompts" /\ arg \in PresetNames

ConstructFlashcard ==
    /\ op = "Flashcard"
    /\ ~res.done
    /\ res' = Done(NewFlashcard(arg))
    /\ UNCHANGED <<op, arg, run>>

GetSystemPrompts ==
    /\ op = "get_system_prompts"
    /\ ~res.done
    /\ res' = Done(get_system_prompts(arg))
    /\ UNCHANGED <<op, arg, run>>

ContractNext ==
    \/ ConstructFlashcard
    \/ GetSystemPrompts

ContractSpec == ContractInit /\ [][ContractNext]_vars

HasText(s) == \E i \in 1..Len(s) : s[i] # " "

\* s is raw without its leading and its trailing whitespace
IsTrimOf(s, raw) ==
    /\ s # <<>>
    /\ s[1] # " "
    /\ s[Len(s)] # " "
    /\ \E i \in 1..Len(raw) :
         /\ i + Len(s) - 1 <= Len(raw)
         /\ SubSeq(raw, i, i + Len(s) - 1) = s
         /\ \A k \in 1..Len(raw) : (k < i \/ k > i + Len(s) - 1) => raw[k] = " "

\* C13: for all strings q and a, constructing a Flashcard succeeds exactly
\* when q and a both hold text after trimming; the card stores q and a
\* without their leading and trailing whitespace; otherwise the
\* construction fails with a validation error.
C13_FlashcardTrimmed ==
    (op = "Flashcard" /\ res.done)
    => /\ res.out.ok <=> (HasText(arg.question) /\ HasText(arg.answer))
       /\ res.out.ok
          => /\ IsTrimOf(res.out.card.question, arg.question)
             /\ IsTrimOf(res.out.card.answer, arg.answer)
       /\ ~res.out.ok => res.out.err.type = "ValidationError"

C13_Witness ==
    /\ op = "Flashcard"
    /\ res.done
    /\ arg.question = <<" ", "a", " ">>
    /\ arg.answer = <<"b", " ", "a">>
    /\ res.out.ok
    /\ res.out.card = [question |-> <<"a">>, answer |-> <<"b", " ", "a">>]

(***************************************************************************)
(* The response parsers applied on their own.                              *)
(***************************************************************************)
\* the texts parse_ai_response is applied to
ParseTexts == SeqsUpTo(ArrayTokens, MaxTextLen + 1)

\* the values of a list field and of overall_quality in a feedback object
ListValues ==
    { <<>>,
      << <<" ">> >>,
      << <<" ", "a">> >>,
      << <<" ">>, <<"b", " ">>, <<>> >> }

QualityValues == { <<>>, <<" ">>, <<" ", "a", " ">> }

\* the member list that holds the keys of K with the values given
Members(K, s, w, r, q) ==
    [keys            |-> K,
     strengths       |-> IF "strengths" \in K THEN s ELSE <<>>,
     weaknesses      |-> IF "weaknesses" \in K THEN w ELSE <<>>,
     recommendations |-> IF "recommendations" \in K THEN r ELSE <<>>,
     overall_quality |-> IF "overall_quality" \in K THEN q ELSE <<>>]

AllMembers ==
    { Members(K, s, w, r, q) :
        K \in SUBSET FeedbackKeys, s \in ListValues, w \in ListValues,
        r \in ListValues, q \in QualityValues }

\* the texts parse_feedback_response is applied to: every short text, and
\* every object on its own or after a word of prose
FeedbackTexts ==
    ObjectTexts
      \cup { << OTok("{"), MembersTok(m), OTok("}") >> : m \in AllMembers }
      \cup { << OTok("n"), OTok("{"), MembersTok(m), OTok("}") >> :
               m \in SampleMembers }

ParserInit ==
    /\ Idle
    /\ res = Pending
    /\ \/ op = "parse_ai_response" /\ arg \in ParseTexts
       \/ op = "parse_feedback_response" /\ arg \in FeedbackTexts

ParseAiResponse ==
    /\ op = "parse_ai_response"
    /\ ~res.done
    /\ res' = Done(parse_ai_response(arg))
    /\ UNCHANGED <<op, arg, run>>

ParseFeedbackResponse ==
    /\ op = "parse_feedback_response"
    /\ ~res.done
    /\ res' = Done(parse_feedback_response(arg))
    /\ UNCHANGED <<op, arg, run>>

ParserNext ==
    \/ ParseAiResponse
    \/ ParseFeedbackResponse

ParserSpec == ParserInit /\ [][ParserNext]_vars

\* the positions of a character in a text
Positions(text, ch) == { i \in 1..Len(text) : text[i].t = ch }

\* i is the first position of ch in text, j the last
IsFirst(text, ch, i) == i \in Positions(text, ch) /\ \A k \in Positions(text, ch) : i <= k

IsLast(text, ch, j) == j \in Positions(text, ch) /\ \A k \in Positions(text, ch) : k <= j

\* the objects between positions i and j of a text
ObjectsBetween(text, i, j) ==
    SelectSeq(SubSeq(text, i + 1, j - 1), LAMBDA tok : tok.t = "obj")

\* the tokens between i and j are objects of valid flashcards and whitespace
FlatCardArray(text, i, j) ==
    /\ i < j
    /\ \A k \in (i + 1)..(j - 1) :
         \/ text[k].t = " "
         \/ /\ text[k].t = "obj"
            /\ HasText(text[k].question)
            /\ HasText(text[k].answer)
    /\ \E k \in (i + 1)..(j - 1) : text[k].t = "obj"

\* C14: when the slice from the first "[" to the last "]" of a response is
\* an array of valid flashcards, parse_ai_response returns those cards,
\* trimmed and in the same order, and the result is that of the slice alone,
\* whatever precedes and follows it.
C14_SliceDecidesResult ==
    (op = "parse_ai_response" /\ res.done)
    => \A i, j \in 1..Len(arg) :
         (IsFirst(arg, "[", i) /\ IsLast(arg, "]", j) /\ FlatCardArray(arg, i, j))
         => LET objs == ObjectsBetween(arg, i, j)
            IN  /\ res.out.ok
                /\ Len(res.out.cards) = Len(objs)
                /\ \A k \in 1..Len(objs) :
                     /\ IsTrimOf(res.out.cards[k].question, objs[k].question)
                     /\ IsTrimOf(res.out.cards[k].answer, objs[k].answer)
                /\ res.out = parse_ai_response(SubSeq(arg, i, j))

C14_Witness ==
    /\ op = "parse_ai_response"
    /\ res.done
    /\ arg = << ATok("n"), ATok("["), ObjTok(<<" ", "b", " ">>, <<"a", " ">>),
                ATok("]"), ATok("n") >>
    /\ res.out.ok
    /\ res.out.cards = << [question |-> <<"b">>, answer |-> <<"a">>] >>

\* C15: a response with no "[", or with no "]" after its first "[", makes
\* parse_ai_response fail with the error "Could not find JSON array".
C15_NoArrayFound ==
    (/\ op = "parse_ai_response"
     /\ res.done
     /\ \/ Positions(arg, "[") = {}
        \/ \A i \in Positions(arg, "[") :
             IsFirst(arg, "[", i) => \A j \in Positions(arg, "]") : j < i)
    => /\ ~res.out.ok
       /\ res.out.err = Error("ValueError", "Could not find JSON array in response")

\* C16 as stated: content between the brackets that is not well-formed JSON
\* fails with another error than well-formed JSON that violates the
\* flashcard contract, here an array holding one card with a blank question.
C16_DistinctKinds ==
    (/\ op = "parse_ai_response"
     /\ res.done
     /\ Positions(arg, "[") # {}
     /\ Positions(arg, "]") # {}
     /\ ~JsonArray(Slice(arg, find(arg, "["), rfind(arg, "]") + 1)))
    => res.out.err #
         parse_ai_response(<< ATok("["), ObjTok(<<" ">>, <<"a">>), ATok("]") >>).err

\* C16: once a "[" and a "]" are found, every failure of parse_ai_response is
\* the same ValueError "Flashcard schema validation failed", for content that
\* is not well-formed JSON as for well-formed JSON that violates the
\* flashcard contract; only a response without "[" or without "]" fails
\* with another error, "Could not find JSON array".
C16_SameKind ==
    (op = "parse_ai_response" /\ res.done /\ ~res.out.ok)
    => IF Positions(arg, "[") # {} /\ Positions(arg, "]") # {}
       THEN res.out.err = Error("ValueError", "Flashcard schema validation failed")
       ELSE res.out.err = Error("ValueError", "Could not find JSON array in response")

C16_Witness ==
    /\ op = "parse_ai_response"
    /\ res.done
    /\ arg = << ATok("["), ATok("n"), ATok("]") >>
    /\ res.out.err = Error("ValueError", "Flashcard schema validation failed")
    /\ res.out.err =
         parse_ai_response(<< ATok("["), ObjTok(<<" ">>, <<"a">>), ATok("]") >>).err

C18_NoObjectFound ==
    (/\ op = "parse_feedback_response"
     /\ res.done
     /\ (Positions(arg, "{") = {} \/ Positions(arg, "}") = {}))
    => /\ ~res.out.ok
       /\ res.out.err = Error("ValueError", "Could not find JSON object in response")

\* the text holds one object between its first "{" and its last "}", with
\* the members of position k
SingleObject(text, k) ==
    \E i, j \in 1..Len(text) :
      /\ IsFirst(text, "{", i)
      /\ IsLast(text, "}", j)
      /\ i < k /\ k < j
      /\ text[k].t = "members"
      /\ \A l \in ((i + 1)..(j - 1)) \ {k} : text[l].t = " "

\* the values of a list field that hold text
WithText(values) == SelectSeq(values, HasText)

\* every field of the object is present and holds a valid value
AllFieldsValid(m) ==
    /\ m.keys = FeedbackKeys
    /\ \A f \in ListFields : WithText(m[f]) # <<>>
    /\ HasText(m.overall_quality)

\* C19: parse_feedback_response succeeds on an object that holds the four
\* fields strengths, weaknesses, recommendations and overall_quality with
\* valid values, and fails with an error when any of the four keys is absent.
C19_AllFourKeysRequired ==
    (op = "parse_feedback_response" /\ res.done)
    => \A k \in 1..Len(arg) :
         SingleObject(arg, k)
         => /\ AllFieldsValid(arg[k].members) => res.out.ok
            /\ (\E f \in FeedbackKeys : f \notin arg[k].members.keys)
               => ~res.out.ok /\ res.out.err.type = "ValueError"

C19_Witness ==
    /\ op = "parse_feedback_response"
    /\ res.done
    /\ Len(arg) = 3
    /\ SingleObject(arg, 2)
    /\ arg[2].members.keys = FeedbackKeys \ {"overall_quality"}
    /\ \A f \in ListFields : WithText(arg[2].members[f]) # <<>>
    /\ ~res.out.ok

\* C20: every validated feedback holds, in each of strengths, weaknesses and
\* recommendations, at least one string and only non-empty trimmed strings:
\* the entries of the input that hold text, trimmed, in order; a list that
\* holds no such entry is rejected with a schema error; overall_quality is
\* the trimmed input and is not empty.
C20_FeedbackListsFiltered ==
    (op = "parse_feedback_response" /\ res.done)
    => /\ res.out.ok
          => /\ \A f \in ListFields :
                  /\ Len(res.out.feedback[f]) >= 1
                  /\ \A n \in 1..Len(res.out.feedback[f]) :
                       IsTrimOf(res.out.feedback[f][n], res.out.feedback[f][n])
             /\ IsTrimOf(res.out.feedback.overall_quality,
                         res.out.feedback.overall_quality)
       /\ \A k \in 1..Len(arg) :
            SingleObject(arg, k)
            => LET m == arg[k].members
               IN  /\ res.out.ok
                      => /\ \A f \in ListFields :
                              LET kept == WithText(m[f])
                              IN  /\ Len(res.out.feedback[f]) = Len(kept)
                                  /\ \A n \in 1..Len(kept) :
                                       IsTrimOf(res.out.feedback[f][n], kept[n])
                         /\ IsTrimOf(res.out.feedback.overall_quality,
                                     m.overall_quality)
                   /\ (\E f \in ListFields : WithText(m[f]) = <<>>)
                      => /\ ~res.out.ok
                         /\ res.out.err =
                              Error("ValueError", "Feedback schema validation failed")

C20_Witness ==
    /\ op = "parse_feedback_response"
    /\ res.done
    /\ Len(arg) = 3
    /\ SingleObject(arg, 2)
    /\ arg[2].members.strengths = << <<" ">>, <<"b", " ">>, <<>> >>
    /\ res.out.ok
    /\ res.out.feedback.strengths = << <<"b">> >>

(***************************************************************************)
(* build_anki_deck applied on its own.  An entry of the sequence passed is *)
(* a Flashcard, a dict or a string, as in TestBuildAnkiDeck.               *)
(***************************************************************************)
MaxDeckLen == 3

Entry(kind, keys, q, a) == [kind |-> kind, keys |-> keys, question |-> q, answer |-> a]

DeckEntries ==
    { Entry("Flashcard", {"question", "answer"}, <<"a">>, <<"b">>),
      Entry("Flashcard", {"question", "answer"}, <<"b">>, <<"a">>),
      Entry("dict", {"question", "answer"}, <<"a">>, <<"b">>),
      Entry("dict", {"question"}, <<"a">>, <<>>),
      Entry("dict", {"question", "answer"}, <<>>, <<"b">>),
      Entry("str", {}, <<>>, <<>>) }

\* the outcome of build_anki_deck: the notes of the deck, or the exception
DeckBuilt(notes) == [ok |-> TRUE, notes |-> notes, err |-> NoError]

DeckRaised(e) == [ok |-> FALSE, notes |-> <<>>, err |-> e]

\* build_anki_deck on any sequence: "if not cards" raises; the loop reads
\* card.question and card.answer of every entry, attributes that only a
\* Flashcard has
BuildAnkiDeck(entries) ==
    IF entries = <<>>
    THEN DeckRaised(Error("ValueError", "No valid Q&A pairs found in the response"))
    ELSE IF \E i \in 1..Len(entries) : entries[i].kind # "Flashcard"
    THEN DeckRaised(Error("AttributeError", "object has no attribute 'question'"))
    ELSE DeckBuilt(build_anki_deck(entries))

DeckInit ==
    /\ Idle
    /\ res = Pending
    /\ op = "build_anki_deck"
    /\ arg \in SeqsUpTo(DeckEntries, MaxDeckLen)

BuildDeck ==
    /\ op = "build_anki_deck"
    /\ ~res.done
    /\ res' = Done(BuildAnkiDeck(arg))
    /\ UNCHANGED <<op, arg, run>>

DeckNext == BuildDeck

DeckSpec == DeckInit /\ [][DeckNext]_vars

\* an entry is a question/answer record whose question and answer are
\* present and not empty
ValidEntry(e) ==
    /\ e.kind \in {"Flashcard", "dict"}
    /\ e.keys = {"question", "answer"}
    /\ e.question # <<>>
    /\ e.answer # <<>>

\* C21: build_anki_deck skips every entry that is not a question/answer
\* record or whose question or answer is missing or empty, adds one note per
\* remaining entry, and raises ValueError "No valid Q&A pairs found" when
\* the input is empty or holds no valid entry.
C21_DeckSkipsInvalid ==
    (op = "build_anki_deck" /\ res.done)
    => LET valid == SelectSeq(arg, ValidEntry)
       IN  IF valid = <<>>
           THEN /\ ~res.out.ok
                /\ res.out.err =
                     Error("ValueError", "No valid Q&A pairs found in the response")
           ELSE /\ res.out.ok
                /\ res.out.notes =
                     [i \in 1..Len(valid) |-> <<valid[i].question, valid[i].answer>>]

(***************************************************************************)
(* The run with generate_qa_pairs patched, as in                           *)
(* test_generate_anki_cards_empty_response: the generation returns a list  *)
(* of flashcards that no response was parsed into, the empty list          *)
(* included.  With the parser in place the generation never returns an     *)
(* empty list (FlashcardList._ensure_non_empty).                           *)
(***************************************************************************)
MaxCards == 2

PatchedCards ==
    SeqsUpTo({ [question |-> <<"a">>, answer |-> <<"b">>],
               [question |-> <<"b">>, answer |-> <<"a">>] }, MaxCards)

\* lines 365-377 with the patched generate_qa_pairs: no request reaches the
\* adapter
GenerateQaPairsPatched ==
    /\ pc = "call"
    /\ phase = "generation"
    /\ \E cards \in PatchedCards :
         LET next == AfterGeneration(cards)
         IN  /\ returns' = Append(returns,
                                  [phase    |-> phase,
                                   adapter  |-> TRUE,
                                   ok       |-> TRUE,
                                   cards    |-> cards,
                                   feedback |-> NoFeedback])
             /\ pc' = next.pc
             /\ phase' = next.phase
             /\ reflection_num' = next.reflection_num
             /\ qa_pairs' = next.qa_pairs
             /\ feedback' = next.feedback
             /\ err' = next.err
             /\ stdout' = stdout \o next.out
             /\ heap' = Append(heap, cards)
    /\ UNCHANGED <<op, arg, res, file, preview_only, max_reflections, calls,
                   md_report, deck, apkg>>

\* the calls of the phases that are not patched
PatchedIssueCall == phase # "generation" /\ IssueCall

PatchedNext ==
    \/ Start
    \/ GenerateQaPairsPatched
    \/ PatchedIssueCall
    \/ AdapterReturns
    \/ WriteReport
    \/ WritePackage

PatchedSpec == Init /\ [][PatchedNext]_vars

\* the generation has returned a list of zero cards
ZeroCardsGenerated ==
    /\ returns # <<>>
    /\ returns[1].phase = "generation"
    /\ returns[1].ok
    /\ returns[1].cards = <<>>

C23_InputValidatedFirst ==
    file \in {"missing", "directory", "blank"}
    => /\ pc \in {"start", "error"}
       /\ pc = "error"
          => err = CASE file = "missing" ->
                          Error("FileNotFoundError", "Input file not found")
                     [] file = "directory" ->
                          Error("ValueError", "Path is not a file")
                     [] OTHER ->
                          Error("ValueError", "Input file is empty")
       /\ calls = <<>>
       /\ returns = <<>>
       /\ stdout = <<>>
       /\ md_report = <<>>
       /\ deck = <<>>
       /\ apkg = <<>>

C23_Witness ==
    /\ file = "blank"
    /\ pc = "error"
    /\ err = Error("ValueError", "Input file is empty")
    /\ calls = <<>>

\* the card set a phase has returned last before the k-th call was issued
CurrentBefore(k) == returns[k - 1].cards

\* C24: in every reflection cycle the reflection call receives the card set
\* current at the start of the cycle, and the improvement call of the cycle
\* receives that same card set together with the feedback that the
\* reflection of the cycle has returned.
C24_CycleInputs ==
    \A k \in 2..Len(returns) :
      (returns[k].phase = "reflection" /\ returns[k].ok)
      => /\ calls[k].qa_pairs = CurrentBefore(k)
         /\ IF Len(calls) > k
            THEN /\ calls[k + 1].phase = "improvement"
                 /\ calls[k + 1].qa_pairs = calls[k].qa_pairs
                 /\ calls[k + 1].feedback = returns[k].feedback
            ELSE /\ pc = "call"
                 /\ phase = "improvement"
                 /\ qa_pairs = calls[k].qa_pairs
                 /\ feedback = returns[k].feedback

\* the names that prompts.py defines at module level
PromptsNames ==
    { "PresetName", "AVAILABLE_PRESETS", "_sgr_generation", "_sgr_reflection",
      "_sgr_improvement", "get_system_prompts", "_format_flashcards_for_prompt",
      "_format_feedback_for_prompt", "create_user_prompt",
      "create_reflection_prompt" }

\* the system prompt workflow.py names for a phase
PhasePrompt(ph) ==
    CASE ph = "generation" -> "GENERATION_PROMPT"
      [] ph = "reflection" -> "REFLECTION_PROMPT"
      [] OTHER             -> "IMPROVEMENT_PROMPT"

\* C25: every adapter call carries the system prompt of its own phase, a
\* system prompt that the prompt builder defines, and the generation call is
\* made with no improvement context.
C25_SystemPromptOfPhase ==
    \A i \in 1..Len(calls) :
      /\ calls[i].system_prompt = PhasePrompt(calls[i].phase)
      /\ calls[i].system_prompt \in PromptsNames
      /\ calls[i].phase = "generation"
         => calls[i].qa_pairs = <<>> /\ calls[i].feedback = NoFeedback

LiveSpec == Spec /\ WF_vars(Next)

Terminal == pc \in {"done", "error"}

\* C27: for every max_reflections and every sequence of adapter outcomes in
\* which each call returns or fails, the run reaches a terminal state, with
\* its artifacts written or aborted with an error; the cycle counter never
\* decreases and never passes the bound.
C27_Terminates ==
    /\ <>Terminal
    /\ [][reflection_num' >= reflection_num]_vars
    /\ [](reflection_num <= RoundTrips)
    /\ [](Len(calls) <= 1 + 2 * RoundTrips)

C27_Witness ==
    /\ Terminal
    /\ max_reflections = 2
    /\ ~preview_only
    /\ Len(calls) = 2
    /\ Len(returns) = 2

\* C28: call_ai_model has two outcomes whatever the provider does: it
\* returns the stripped text of the response, or it fails with the error
\* "Error calling AI model"; no other error leaves it, also when the
\* response holds no choices or no text content.
C28_AdapterTwoOutcomes ==
    \A i \in 1..Len(returns) :
      ~returns[i].adapter
      => (pc = "error" => err = Error("Exception", "Error calling AI model"))

\* C29: a full run never ends with the Markdown report written and the deck
\* package not written: both artifacts are written or neither is, also when
\* building the deck or writing the package fails.
C29_ReportAndPackageTogether ==
    (~preview_only /\ Terminal)
    => (md_report = <<>> <=> apkg = <<>>)

=============================================================================
